---- MODULE Spec2Model ----
(***************************************************************************)
(* A model of scad/scripts/scad_tool.py: the OpenSCAD helper with its      *)
(* three subcommands validate, stl and screenshots.                         *)
(*                                                                         *)
(* Python strings are TLA+ strings.  Python floats are fixed-point         *)
(* integers: angles and distances in hundredths (4500 is 45.0), the        *)
(* components of a direction vector in billionths, the components of a    *)
(* camera string in thousandths (the three decimals camera_string prints). *)
(* One run of main() is one behaviour: Init draws the command    *)
(* line and the environment, the actions are the steps of main() and of    *)
(* the selected subcommand, split where the script blocks on the external  *)
(* binary.                                                                  *)
(***************************************************************************)
EXTENDS Integers, Sequences, FiniteSets, TLC

\* Python's None, for an option that was not given.
None == "<None>"

(***************************************************************************)
(* Bounds of the model.                                                     *)
(***************************************************************************)
\* The external binary returns an exit code in 0..MaxExit.
MaxExit == 2
\* At most this many -D definitions on the command line.
MaxDefines == 1

(***************************************************************************)
(* Python string methods.                                                   *)
(***************************************************************************)
Char(s, k) == SubSeq(s, k, k)

\* needle in s
Contains(s, needle) ==
    \E k \in 1..(Len(s) - Len(needle) + 1) : SubSeq(s, k, k + Len(needle) - 1) = needle

\* s.find(ch) for a one-character ch, 1-based; 0 when absent
Find(s, ch) ==
    IF Contains(s, ch)
    THEN CHOOSE k \in 1..Len(s) : Char(s, k) = ch /\ \A j \in 1..(k - 1) : Char(s, j) # ch
    ELSE 0

\* s.rfind(ch), 1-based; 0 when absent
RFind(s, ch) ==
    IF Contains(s, ch)
    THEN CHOOSE k \in 1..Len(s) : Char(s, k) = ch /\ \A j \in (k + 1)..Len(s) : Char(s, j) # ch
    ELSE 0

\* s.split(sep) for a one-character sep: always at least one part
RECURSIVE Split(_, _)
Split(s, sep) ==
    LET k == Find(s, sep)
    IN  IF k = 0 THEN <<s>>
        ELSE <<SubSeq(s, 1, k - 1)>> \o Split(SubSeq(s, k + 1, Len(s)), sep)

\* s.lstrip(ch) / s.rstrip(ch) for a one-character ch
RECURSIVE LStrip(_, _)
LStrip(s, ch) ==
    IF Len(s) > 0 /\ Char(s, 1) = ch THEN LStrip(SubSeq(s, 2, Len(s)), ch) ELSE s

RECURSIVE RStrip(_, _)
RStrip(s, ch) ==
    IF Len(s) > 0 /\ Char(s, Len(s)) = ch THEN RStrip(SubSeq(s, 1, Len(s) - 1), ch) ELSE s

\* s.strip(): the whitespace of the model's inputs is the blank
Strip(s) == RStrip(LStrip(s, " "), " ")

\* s.replace(old, new) for a one-character old
RECURSIVE Replace(_, _, _)
Replace(s, old, new) ==
    IF Len(s) = 0 THEN ""
    ELSE (IF Char(s, 1) = old THEN new ELSE Char(s, 1))
         \o Replace(SubSeq(s, 2, Len(s)), old, new)

\* sep.join(parts)
RECURSIVE Join(_, _)
Join(parts, sep) ==
    IF Len(parts) = 0 THEN ""
    ELSE IF Len(parts) = 1 THEN parts[1]
    ELSE parts[1] \o sep \o Join(Tail(parts), sep)

(***************************************************************************)
(* Numbers and their text.                                                  *)
(***************************************************************************)
Digits == <<"0", "1", "2", "3", "4", "5", "6", "7", "8", "9">>

IsDigit(c) == \E d \in 1..10 : Digits[d] = c

DigitValue(c) == (CHOOSE d \in 1..10 : Digits[d] = c) - 1

IsDigits(s) == Len(s) > 0 /\ \A k \in 1..Len(s) : IsDigit(Char(s, k))

Abs(n) == IF n < 0 THEN -n ELSE n

\* str(n) for n >= 0
RECURSIVE NatStr(_)
NatStr(n) ==
    IF n < 10 THEN Digits[n + 1] ELSE NatStr(n \div 10) \o Digits[(n % 10) + 1]

\* the value of a non-empty digit string
RECURSIVE DigitsValue(_)
DigitsValue(s) ==
    IF Len(s) = 1 THEN DigitValue(s)
    ELSE 10 * DigitsValue(SubSeq(s, 1, Len(s) - 1)) + DigitValue(Char(s, Len(s)))

\* A conversion's result: the value, or ValueError raised.
Value(v) == [ok |-> TRUE, val |-> v]

ValueError == [ok |-> FALSE, val |-> 0]

Negated(r) == [r EXCEPT !.val = -r.val]

\* A numeric literal without its sign, and the sign put back on its value.
Unsigned(t) ==
    IF Len(t) > 0 /\ (Char(t, 1) = "-" \/ Char(t, 1) = "+") THEN SubSeq(t, 2, Len(t)) ELSE t

WithSign(t, r) == IF Len(t) > 0 /\ Char(t, 1) = "-" THEN Negated(r) ELSE r

IntBody(body) == IF IsDigits(body) THEN Value(DigitsValue(body)) ELSE ValueError

IntText(t) == WithSign(t, IntBody(Unsigned(t)))

\* int(s) as argparse's type=int applies it: blanks stripped, an optional
\* sign, then digits; anything else raises ValueError.
ParseInt(s) == IntText(Strip(s))

\* The fraction digits of a literal, in hundredths.
FracValue(frac) ==
    IF frac = "" THEN 0
    ELSE IF Len(frac) = 1 THEN 10 * DigitsValue(frac)
    ELSE DigitsValue(frac)

FloatParts(whole, frac) ==
    IF whole = "" /\ frac = "" THEN ValueError
    ELSE IF whole # "" /\ ~IsDigits(whole) THEN ValueError
    ELSE IF frac # "" /\ ~(IsDigits(frac) /\ Len(frac) <= 2) THEN ValueError
    ELSE Value(100 * (IF whole = "" THEN 0 ELSE DigitsValue(whole)) + FracValue(frac))

FloatAt(body, dot) ==
    IF dot = 0 THEN FloatParts(body, "")
    ELSE FloatParts(SubSeq(body, 1, dot - 1), SubSeq(body, dot + 1, Len(body)))

FloatBody(body) == FloatAt(body, Find(body, "."))

\* float(s), in hundredths, for decimal literals of at most two fraction
\* digits: blanks stripped, an optional sign, digits, an optional point and
\* fraction.  Any other text of the model's inputs raises ValueError.
FloatText(t) == WithSign(t, FloatBody(Unsigned(t)))

ParseFloat(s) == FloatText(Strip(s))

\* f"{v:.{places}f}" of the fixed-point number n / 10^places
RECURSIVE Pow10(_)
Pow10(k) == IF k = 0 THEN 1 ELSE 10 * Pow10(k - 1)

RECURSIVE ZeroPad(_, _)
ZeroPad(s, width) == IF Len(s) >= width THEN s ELSE ZeroPad("0" \o s, width)

FormatFixed(n, places) ==
    (IF n < 0 THEN "-" ELSE "")
    \o NatStr(Abs(n) \div Pow10(places))
    \o "."
    \o ZeroPad(NatStr(Abs(n) % Pow10(places)), places)

\* n / d rounded to the nearest integer, for d > 0
RoundDiv(n, d) ==
    IF n >= 0 THEN (2 * n + d) \div (2 * d) ELSE -((2 * (-n) + d) \div (2 * d))

(***************************************************************************)
(* The fixed tables.                                                        *)
(***************************************************************************)
SCAD_HOME == "/home/u/.scad"

OPENSCAD_BIN == "/Applications/OpenSCAD.app/Contents/MacOS/OpenSCAD"

Shot(label, camera) == [label |-> label, camera |-> camera]

PresetNames == {"single", "iso", "ortho", "standard"}

PRESETS ==
    [name \in PresetNames |->
        CASE name = "single" -> <<Shot("iso", "0,0,0,55,0,25,0")>>
          [] name = "iso" ->
                <<Shot("iso_ne", "0,0,0,55,0,45,0"),
                  Shot("iso_nw", "0,0,0,55,0,135,0"),
                  Shot("iso_sw", "0,0,0,55,0,225,0"),
                  Shot("iso_se", "0,0,0,55,0,315,0")>>
          [] name = "ortho" ->
                <<Shot("front", "0,0,0,90,0,0,0"),
                  Shot("back", "0,0,0,90,0,180,0"),
                  Shot("left", "0,0,0,90,0,270,0"),
                  Shot("right", "0,0,0,90,0,90,0"),
                  Shot("top", "0,0,0,0,0,0,0"),
                  Shot("bottom", "0,0,0,180,0,0,0")>>
          [] name = "standard" ->
                <<Shot("front", "0,0,0,90,0,0,0"),
                  Shot("back", "0,0,0,90,0,180,0"),
                  Shot("left", "0,0,0,90,0,270,0"),
                  Shot("right", "0,0,0,90,0,90,0"),
                  Shot("top", "0,0,0,0,0,0,0"),
                  Shot("bottom", "0,0,0,180,0,0,0"),
                  Shot("iso", "0,0,0,55,0,25,0")>>]

ViewNames == {"iso", "front", "back", "left", "right", "top", "bottom"}

\* A float of the camera math: a sign and a magnitude.
Float(sign, mag) == [sign |-> sign, mag |-> mag]

Plus(mag) == Float(1, mag)

Minus(mag) == Float(-1, mag)

\* Direction vectors; the magnitude of a component is in billionths.
VIEW_DIRECTIONS ==
    [name \in ViewNames |->
        CASE name = "iso" -> <<Plus(1000000000), Plus(1000000000), Plus(1000000000)>>
          [] name = "front" -> <<Plus(0), Minus(1000000000), Plus(0)>>
          [] name = "back" -> <<Plus(0), Plus(1000000000), Plus(0)>>
          [] name = "left" -> <<Minus(1000000000), Plus(0), Plus(0)>>
          [] name = "right" -> <<Plus(1000000000), Plus(0), Plus(0)>>
          [] name = "top" -> <<Plus(0), Plus(0), Plus(1000000000)>>
          [] name = "bottom" -> <<Plus(0), Plus(0), Minus(1000000000)>>]

\* The flags detect_flags looks for, in its order.
FlagList ==
    <<"--render", "--backend", "--camera", "--imgsize", "--viewall",
      "--autocenter", "--projection", "--view", "--colorscheme">>

Flags == {FlagList[k] : k \in 1..Len(FlagList)}

(***************************************************************************)
(* detect_flags: a flag is supported when its text occurs anywhere in the   *)
(* help text.                                                               *)
(***************************************************************************)
detect_flags(help_text) == [flag \in Flags |-> Contains(help_text, flag)]

(***************************************************************************)
(* Camera math.  A float of the camera math is a sign and a magnitude, so  *)
(* that a negative zero keeps the sign Python prints ("-0.000").  math.cos *)
(* and math.sin are tabulated, row <<angle, sign and magnitude of the      *)
(* cosine, sign and magnitude of the sine>>, the angle in hundredths of a  *)
(* degree and the magnitudes in billionths, at the angles the model's      *)
(* inputs reach: the multiples of 9 and of 15 degrees from -90 up to 360,  *)
(* and 25, 10.01, 10.04 and -12.5.                                         *)
(***************************************************************************)
TrigTable ==
    <<<<-9000, 1, 0, -1, 1000000000>>, <<-8100, 1, 156434465, -1, 987688341>>,
      <<-7500, 1, 258819045, -1, 965925826>>, <<-7200, 1, 309016994, -1, 951056516>>,
      <<-6300, 1, 453990500, -1, 891006524>>, <<-6000, 1, 500000000, -1, 866025404>>,
      <<-5400, 1, 587785252, -1, 809016994>>, <<-4500, 1, 707106781, -1, 707106781>>,
      <<-3600, 1, 809016994, -1, 587785252>>, <<-3000, 1, 866025404, -1, 500000000>>,
      <<-2700, 1, 891006524, -1, 453990500>>, <<-1800, 1, 951056516, -1, 309016994>>,
      <<-1500, 1, 965925826, -1, 258819045>>, <<-1250, 1, 976296007, -1, 216439614>>,
      <<-900, 1, 987688341, -1, 156434465>>, <<0, 1, 1000000000, 1, 0>>,
      <<900, 1, 987688341, 1, 156434465>>, <<1001, 1, 984777431, 1, 173820056>>,
      <<1004, 1, 984686284, 1, 174335661>>, <<1500, 1, 965925826, 1, 258819045>>,
      <<1800, 1, 951056516, 1, 309016994>>, <<2500, 1, 906307787, 1, 422618262>>,
      <<2700, 1, 891006524, 1, 453990500>>, <<3000, 1, 866025404, 1, 500000000>>,
      <<3600, 1, 809016994, 1, 587785252>>, <<4500, 1, 707106781, 1, 707106781>>,
      <<5400, 1, 587785252, 1, 809016994>>, <<6000, 1, 500000000, 1, 866025404>>,
      <<6300, 1, 453990500, 1, 891006524>>, <<7200, 1, 309016994, 1, 951056516>>,
      <<7500, 1, 258819045, 1, 965925826>>, <<8100, 1, 156434465, 1, 987688341>>,
      <<9000, 1, 0, 1, 1000000000>>, <<9900, -1, 156434465, 1, 987688341>>,
      <<10500, -1, 258819045, 1, 965925826>>, <<10800, -1, 309016994, 1, 951056516>>,
      <<11700, -1, 453990500, 1, 891006524>>, <<12000, -1, 500000000, 1, 866025404>>,
      <<12600, -1, 587785252, 1, 809016994>>, <<13500, -1, 707106781, 1, 707106781>>,
      <<14400, -1, 809016994, 1, 587785252>>, <<15000, -1, 866025404, 1, 500000000>>,
      <<15300, -1, 891006524, 1, 453990500>>, <<16200, -1, 951056516, 1, 309016994>>,
      <<16500, -1, 965925826, 1, 258819045>>, <<17100, -1, 987688341, 1, 156434465>>,
      <<18000, -1, 1000000000, 1, 0>>, <<18900, -1, 987688341, -1, 156434465>>,
      <<19500, -1, 965925826, -1, 258819045>>, <<19800, -1, 951056516, -1, 309016994>>,
      <<20700, -1, 891006524, -1, 453990500>>, <<21000, -1, 866025404, -1, 500000000>>,
      <<21600, -1, 809016994, -1, 587785252>>, <<22500, -1, 707106781, -1, 707106781>>,
      <<23400, -1, 587785252, -1, 809016994>>, <<24000, -1, 500000000, -1, 866025404>>,
      <<24300, -1, 453990500, -1, 891006524>>, <<25200, -1, 309016994, -1, 951056516>>,
      <<25500, -1, 258819045, -1, 965925826>>, <<26100, -1, 156434465, -1, 987688341>>,
      <<27000, -1, 0, -1, 1000000000>>, <<27900, 1, 156434465, -1, 987688341>>,
      <<28500, 1, 258819045, -1, 965925826>>, <<28800, 1, 309016994, -1, 951056516>>,
      <<29700, 1, 453990500, -1, 891006524>>, <<30000, 1, 500000000, -1, 866025404>>,
      <<30600, 1, 587785252, -1, 809016994>>, <<31500, 1, 707106781, -1, 707106781>>,
      <<32400, 1, 809016994, -1, 587785252>>, <<33000, 1, 866025404, -1, 500000000>>,
      <<33300, 1, 891006524, -1, 453990500>>, <<34200, 1, 951056516, -1, 309016994>>,
      <<34500, 1, 965925826, -1, 258819045>>, <<35100, 1, 987688341, -1, 156434465>>>>

TrigRow(h) == CHOOSE k \in 1..Len(TrigTable) : TrigTable[k][1] = h

Cos(h) == Float(TrigTable[TrigRow(h)][2], TrigTable[TrigRow(h)][3])

Sin(h) == Float(TrigTable[TrigRow(h)][4], TrigTable[TrigRow(h)][5])

\* a * b / 10^9 to the nearest integer, for a and b in 0..10^9, computed on
\* three-digit limbs to stay within the checker's integers
MulNano(a, b) ==
    LET a2 == a \div 1000000
        a1 == (a \div 1000) % 1000
        a0 == a % 1000
        b2 == b \div 1000000
        b1 == (b \div 1000) % 1000
        b0 == b % 1000
        low == ((a1 * b0) + (a0 * b1)) * 1000 + (a0 * b0)
        mid == (a2 * b0) + (a1 * b1) + (a0 * b2) + (low \div 1000000)
        rest == ((mid % 1000) * 1000000) + (low % 1000000)
    IN  (a2 * b2 * 1000) + (a2 * b1) + (a1 * b2) + (mid \div 1000)
        + (IF 2 * rest >= 1000000000 THEN 1 ELSE 0)

\* the product of two floats
Times(x, y) == Float(x.sign * y.sign, MulNano(x.mag, y.mag))

\* direction_from_angles(az_deg, el_deg) -> (x, y, z)
direction_from_angles(az, el) ==
    <<Times(Cos(el), Cos(az)), Times(Cos(el), Sin(az)), Sin(el)>>

\* mag * distance / 10^8 to the nearest integer: a magnitude in billionths
\* times a distance in hundredths (at most 1000.00), in thousandths
ScaleNano(mag, distance) ==
    LET X == (mag \div 1000000) * distance
        Y == ((mag \div 1000) % 1000) * distance
        Z == (mag % 1000) * distance
        rest == ((X % 100) * 1000000) + ((Y % 100000) * 1000) + Z
    IN  (X \div 100) + (Y \div 100000) + (rest \div 100000000)
        + (IF 2 * (rest % 100000000) >= 100000000 THEN 1 ELSE 0)

\* d * distance, in thousandths, with the sign of the product
Scaled(d, distance) ==
    Float(d.sign * (IF distance < 0 THEN -1 ELSE 1), ScaleNano(d.mag, Abs(distance)))

\* f"{v:.3f}" of a float in thousandths
Format3(v) == (IF v.sign < 0 THEN "-" ELSE "") \o FormatFixed(v.mag, 3)

\* camera_string that prints the eye and forgets the center.
camera_string_EyeOnly(direction, distance) ==
    LET eye == [k \in 1..3 |-> Scaled(direction[k], distance)]
    IN  Join([k \in 1..Len(eye) |-> Format3(eye[k])], ",")

\* camera_string(direction, distance): the eye is the direction scaled by
\* the distance, the center is the origin, each value printed with three
\* decimals and the six joined by commas.
camera_string(direction, distance) ==
    LET eye == [k \in 1..3 |-> Scaled(direction[k], distance)]
        center == [k \in 1..3 |-> Float(1, 0)]
        vals == eye \o center
    IN  Join([k \in 1..Len(vals) |-> Format3(vals[k])], ",")

\* label_from_value(value): the value printed with one decimal (values whose
\* second decimal is 5 are outside the model's inputs), trailing zeros and a
\* trailing point removed, the point replaced by p, m in front of a
\* negative value.
label_from_value(value) ==
    LET sign == IF value < 0 THEN "m" ELSE ""
        val == Abs(value)
        printed == FormatFixed(RoundDiv(val, 10), 1)
        stripped == RStrip(RStrip(printed, "0"), ".")
        text == IF stripped = "" THEN "0" ELSE stripped
    IN  sign \o Replace(text, ".", "p")

\* One az:el part of parse_angles, split at its first colon.
AnglePair(az, el) ==
    IF az.ok /\ el.ok THEN Value(<<az.val, el.val>>) ELSE [ok |-> FALSE, val |-> <<>>]

AnglePartAt(part, colon) ==
    IF colon = 0 THEN [ok |-> FALSE, val |-> <<>>]
    ELSE AnglePair(ParseFloat(SubSeq(part, 1, colon - 1)),
                   ParseFloat(SubSeq(part, colon + 1, Len(part))))

\* The pair in front of the pairs that follow it.
AnglesCons(pair, rest) ==
    IF ~pair.ok THEN pair
    ELSE IF ~rest.ok THEN rest
    ELSE Value(<<pair.val>> \o rest.val)

\* parse_angles(value): the az:el pairs of a comma-separated list, or
\* ValueError at the first part that has no colon or no number in it.
RECURSIVE ParseAngleParts(_)
\* parse_angles that skips a part without a colon like an empty one.
ParseAnglePart_SkipColonless(part, tail) ==
    IF part = "" \/ Find(part, ":") = 0 THEN ParseAngleParts(tail)
    ELSE AnglesCons(AnglePartAt(part, Find(part, ":")), ParseAngleParts(tail))

ParseAnglePart(part, tail) ==
    IF part = "" THEN ParseAngleParts(tail)
    ELSE AnglesCons(AnglePartAt(part, Find(part, ":")), ParseAngleParts(tail))

ParseAngleParts(parts) ==
    IF Len(parts) = 0 THEN Value(<<>>)
    ELSE ParseAnglePart(Strip(Head(parts)), Tail(parts))

parse_angles(value) == ParseAngleParts(Split(value, ","))

(***************************************************************************)
(* The command line and the environment of one run.                         *)
(***************************************************************************)
\* The raw command line: every option is its text, or None when not given.
\* validate and stl take none of the screenshot options.
BaseArgv(command) ==
    [command |-> command, openscad |-> None, input |-> "parts/model.scad",
     out_dir |-> None, output |-> None, define |-> <<>>, keep |-> FALSE,
     preset |-> None, views |-> None, angles |-> None, turntable |-> None,
     elevation |-> None, az_start |-> None, distance |-> None,
     width |-> None, height |-> None, projection |-> None,
     colorscheme |-> None, view_opts |-> None]

\* The environment: whether the input file exists, the OPENSCAD_BIN
\* variable, the binaries that exist on disk, and whether the located binary
\* can be executed at all.
BaseEnv ==
    [input_exists |-> TRUE, OPENSCAD_BIN |-> None, installed |-> {OPENSCAD_BIN},
     exec_ok |-> TRUE]

AngleInputs ==
    {"", " , ", "45:30", "0:90,-12.5:30", "10.01:0,10.04:0", "45:30,bad"}

TurntableInputs == {"0", "36", "-90", "400", "x"}

ViewInputs == {"", "bogus,nope", "top, bogus ,front", "front,front"}

PresetInputs == {"standard", "iso", "bogus"}

DefineInputs == {"a=1", "b=2"}

RECURSIVE SeqsUpTo(_, _)
SeqsUpTo(S, n) ==
    IF n = 0 THEN {<<>>}
    ELSE SeqsUpTo(S, n - 1)
         \cup {Append(q, e) : q \in {r \in SeqsUpTo(S, n - 1) : Len(r) = n - 1}, e \in S}

DefineLists == SeqsUpTo(DefineInputs, MaxDefines)

Opt(S) == {None} \cup S

\* Every combination of the four shot-list options.
StrategyArgvs ==
    {[BaseArgv("screenshots") EXCEPT
        !.angles = a, !.turntable = t, !.views = v, !.preset = p] :
        a \in Opt(AngleInputs), t \in Opt(TurntableInputs),
        v \in Opt(ViewInputs), p \in Opt(PresetInputs)}

\* The remaining screenshot options, over a few shot lists.
ConfigArgvs ==
    {[b EXCEPT
        !.az_start = az, !.elevation = el, !.distance = d, !.view_opts = vo,
        !.colorscheme = IF alt THEN "Nature" ELSE None,
        !.projection = IF alt THEN "o" ELSE None,
        !.out_dir = IF alt THEN "/tmp/shots" ELSE None,
        !.width = IF alt THEN "640" ELSE None,
        !.height = IF alt THEN "480" ELSE None] :
        b \in {[BaseArgv("screenshots") EXCEPT !.turntable = "36"],
               [BaseArgv("screenshots") EXCEPT !.turntable = "-90", !.preset = "iso"],
               [BaseArgv("screenshots") EXCEPT !.angles = "45:30"],
               [BaseArgv("screenshots") EXCEPT !.views = "top, bogus ,front"],
               BaseArgv("screenshots")},
        az \in Opt({"-45"}), el \in Opt({"-30"}), d \in Opt({"150.5"}),
        vo \in Opt({"axes"}), alt \in BOOLEAN}

\* Screenshots with -D definitions.
DefineArgvs ==
    {[b EXCEPT !.define = df] :
        b \in {[BaseArgv("screenshots") EXCEPT !.views = "top, bogus ,front"],
               [BaseArgv("screenshots") EXCEPT !.preset = "iso", !.view_opts = "axes"]},
        df \in DefineLists}

\* A command line argparse rejects on one of its typed options.
RejectedArgvs ==
    {[BaseArgv("screenshots") EXCEPT !.angles = "45:30", !.distance = "far"],
     [BaseArgv("screenshots") EXCEPT !.width = "wide"],
     [BaseArgv("screenshots") EXCEPT !.projection = "x"]}

ValidateArgvs ==
    {[BaseArgv("validate") EXCEPT !.keep = k, !.define = df, !.out_dir = od] :
        k \in BOOLEAN, df \in DefineLists, od \in Opt({"/tmp/check"})}

StlArgvs ==
    {[BaseArgv("stl") EXCEPT !.define = df, !.output = o] :
        df \in DefineLists, o \in Opt({"out/part.stl"})}

\* Where the binary comes from, and whether it is there.
Envs ==
    {[BaseEnv EXCEPT !.input_exists = ie, !.OPENSCAD_BIN = ev, !.installed = ins,
                     !.exec_ok = ex] :
        ie \in BOOLEAN, ev \in Opt({"/opt/bin/openscad"}),
        ins \in SUBSET {"/opt/bin/openscad", OPENSCAD_BIN}, ex \in BOOLEAN}

Runs ==
    {[argv |-> a, env |-> BaseEnv] :
        a \in StrategyArgvs \cup ConfigArgvs \cup DefineArgvs \cup RejectedArgvs
              \cup ValidateArgvs \cup StlArgvs}
    \cup
    {[argv |-> [a EXCEPT !.openscad = o], env |-> e] :
        a \in {BaseArgv("validate"), BaseArgv("stl"),
               [BaseArgv("validate") EXCEPT !.keep = TRUE],
               [BaseArgv("screenshots") EXCEPT !.angles = "45:30,bad"],
               [BaseArgv("screenshots") EXCEPT !.views = "front,front"],
               [BaseArgv("screenshots") EXCEPT !.preset = "iso"]},
        o \in Opt({"", "/usr/bin/openscad"}), e \in Envs}

\* What the binary's help text may be.
HelpTexts ==
    {"",
     "--render --backend --camera --imgsize --viewall --autocenter --projection --view --colorscheme",
     "--camera=arg --imgsize=w,h --render",
     "--viewall --autocenter --colorscheme=arg"}

(***************************************************************************)
(* The state of one run.                                                    *)
(***************************************************************************)
VARIABLES argv, env, pc, openscad, supports, strategy, shots, idx, calls,
          files, tmp_path, exit_code, error

vars ==
    <<argv, env, pc, openscad, supports, strategy, shots, idx, calls, files,
      tmp_path, exit_code, error>>

Truthy(s) == s # None /\ s # ""

\* value or default
Or(s, default) == IF Truthy(s) THEN s ELSE default

(***************************************************************************)
(* argparse: the typed options main declares.                               *)
(***************************************************************************)
FloatOptionOk(raw) == raw = None \/ ParseFloat(raw).ok

IntOptionOk(raw) == raw = None \/ ParseInt(raw).ok

\* parser.parse_args() exits with code 2 on a value outside an option's
\* choices or type.
ArgparseRejects(raw) ==
    raw.command = "screenshots"
    /\ \/ raw.preset # None /\ raw.preset \notin PresetNames
       \/ ~IntOptionOk(raw.turntable)
       \/ ~FloatOptionOk(raw.elevation)
       \/ ~FloatOptionOk(raw.az_start)
       \/ ~FloatOptionOk(raw.distance)
       \/ ~IntOptionOk(raw.width)
       \/ ~IntOptionOk(raw.height)
       \/ raw.projection # None /\ raw.projection \notin {"o", "p"}

\* The namespace parse_args returns: typed options converted, defaults
\* filled in.  turntable keeps whether it was given beside its value.
Namespace(raw) ==
    [raw EXCEPT
        !.turntable = [given |-> raw.turntable # None,
                       val |-> IF raw.turntable = None THEN 0
                               ELSE ParseInt(raw.turntable).val],
        !.elevation = IF raw.elevation = None THEN 2500 ELSE ParseFloat(raw.elevation).val,
        !.az_start = IF raw.az_start = None THEN 0 ELSE ParseFloat(raw.az_start).val,
        !.distance = IF raw.distance = None THEN 20000 ELSE ParseFloat(raw.distance).val,
        !.width = IF raw.width = None THEN 1024 ELSE ParseInt(raw.width).val,
        !.height = IF raw.height = None THEN 1024 ELSE ParseInt(raw.height).val]

args == Namespace(argv)

(***************************************************************************)
(* Paths.                                                                   *)
(***************************************************************************)
\* Path(p).stem: the last component without its last suffix
Stem(path) ==
    LET name == SubSeq(path, RFind(path, "/") + 1, Len(path))
        dot == RFind(name, ".")
    IN  IF dot <= 1 THEN name ELSE SubSeq(name, 1, dot - 1)

\* find_openscad(): the OPENSCAD_BIN variable when that file exists, else
\* the fixed install path when it exists, else None
find_openscad(e) ==
    IF Truthy(e.OPENSCAD_BIN) /\ e.OPENSCAD_BIN \in e.installed THEN e.OPENSCAD_BIN
    ELSE IF OPENSCAD_BIN \in e.installed THEN OPENSCAD_BIN
    ELSE None

(***************************************************************************)
(* cmd_screenshots: the shot list.                                          *)
(***************************************************************************)
\* Priority 1: one shot per az:el pair of --angles.
AngleShots(a) ==
    LET parsed == parse_angles(a.angles)
    IN  [ok |-> parsed.ok,
         shots |-> [k \in 1..Len(parsed.val) |->
                       LET az == parsed.val[k][1]
                           el == parsed.val[k][2]
                       IN  Shot("az" \o label_from_value(az) \o "_el" \o label_from_value(el),
                                camera_string(direction_from_angles(az, el), a.distance))]]

\* The number of shots of a turntable of the given step.
TurntableStep(turntable) ==
    LET step == Abs(turntable) IN IF step = 0 THEN 1 ELSE step

\* The count without its lower limit of one.
TurntableCount_NoLowerLimit(step) == 360 \div step

TurntableCount(step) ==
    LET n == 360 \div step IN IF n < 1 THEN 1 ELSE n

\* Priority 2: a full turn at the fixed elevation.
TurntableShots(a) ==
    LET step == TurntableStep(a.turntable.val)
        count == TurntableCount(step)
    IN  [i \in 1..count |->
            LET az == a.az_start + (i - 1) * step * 100
            IN  Shot("tt_az" \o label_from_value(az) \o "_el" \o label_from_value(a.elevation),
                     camera_string(direction_from_angles(az, a.elevation), a.distance))]

\* Priority 3: the known names among the parts of --views, in order.
RECURSIVE ViewShotsOf(_, _)
\* The views loop leaving at an unknown name instead of going on.
ViewShotsOf_StopAtUnknown(parts, distance) ==
    IF Len(parts) = 0 THEN <<>>
    ELSE LET view == Strip(Head(parts))
             rest == ViewShotsOf(Tail(parts), distance)
         IN  IF view = "" THEN rest
             ELSE IF view \notin DOMAIN VIEW_DIRECTIONS THEN <<>>
             ELSE <<Shot(view, camera_string(VIEW_DIRECTIONS[view], distance))>> \o rest

ViewShotsOf(parts, distance) ==
    IF Len(parts) = 0 THEN <<>>
    ELSE LET view == Strip(Head(parts))
             rest == ViewShotsOf(Tail(parts), distance)
         IN  IF view = "" THEN rest
             ELSE IF view \notin DOMAIN VIEW_DIRECTIONS THEN rest
             ELSE <<Shot(view, camera_string(VIEW_DIRECTIONS[view], distance))>> \o rest

ViewShots(a) == ViewShotsOf(Split(a.views, ","), a.distance)

\* The if/elif chain of cmd_screenshots: which strategy builds the shot
\* list, how it ends, and the list.
BuildShots(a) ==
    IF Truthy(a.angles)
    THEN LET r == AngleShots(a)
         IN  [strategy |-> "angles", outcome |-> IF r.ok THEN "ok" ELSE "ValueError",
              shots |-> r.shots]
    ELSE IF a.turntable.given /\ a.turntable.val # 0
    THEN [strategy |-> "turntable", outcome |-> "ok", shots |-> TurntableShots(a)]
    ELSE IF Truthy(a.views)
    THEN [strategy |-> "views", outcome |-> "ok", shots |-> ViewShots(a)]
    ELSE IF Truthy(a.preset)
    THEN IF a.preset \in DOMAIN PRESETS
         THEN [strategy |-> "preset", outcome |-> "ok", shots |-> PRESETS[a.preset]]
         ELSE [strategy |-> "preset", outcome |-> "unknown_preset", shots |-> <<>>]
    ELSE [strategy |-> "default", outcome |-> "ok", shots |-> PRESETS["single"]]

(***************************************************************************)
(* The command lines handed to the external binary.                         *)
(***************************************************************************)
IntStr(n) == IF n < 0 THEN "-" \o NatStr(-n) ELSE NatStr(n)

RECURSIVE add_defines(_)
add_defines(defines) ==
    IF Len(defines) = 0 THEN <<>>
    ELSE <<"-D", Head(defines)>> \o add_defines(Tail(defines))

When(cond, words) == IF cond THEN words ELSE <<>>

\* The start every render command shares.
RenderCmd(bin, sup, defines) ==
    <<bin>>
    \o When(sup["--render"], <<"--render">>)
    \o When(sup["--backend"], <<"--backend", "Manifold">>)
    \o add_defines(defines)

ScadFile(a) == a.input

ValidateOutDir(a) == Or(a.out_dir, SCAD_HOME \o "/tmp")

\* The name NamedTemporaryFile makes up in out_dir.
ValidateTmpPath(a) ==
    ValidateOutDir(a) \o "/" \o Stem(ScadFile(a)) \o "_validate_" \o "k3j2x9qa" \o ".stl"

ValidateCmd(a, bin, sup, tmp) ==
    RenderCmd(bin, sup, a.define) \o <<"-o", tmp, ScadFile(a)>>

StlOutPath(a) == Or(a.output, SCAD_HOME \o "/outputs/" \o Stem(ScadFile(a)) \o ".stl")

StlCmd(a, bin, sup) ==
    RenderCmd(bin, sup, a.define) \o <<"-o", StlOutPath(a), ScadFile(a)>>

ShotsOutDir(a) == Or(a.out_dir, SCAD_HOME \o "/renders/" \o Stem(ScadFile(a)))

ShotOutFile(a, shot) ==
    ShotsOutDir(a) \o "/" \o Stem(ScadFile(a)) \o "_" \o shot.label \o ".png"

\* The command with --view added without asking whether it is supported.
ScreenshotCmd_ViewUnchecked(a, bin, sup, shot) ==
    RenderCmd(bin, sup, a.define)
    \o When(sup["--autocenter"], <<"--autocenter">>)
    \o When(sup["--viewall"], <<"--viewall">>)
    \o When(sup["--camera"], <<"--camera=" \o shot.camera>>)
    \o When(sup["--imgsize"], <<"--imgsize=" \o IntStr(a.width) \o "," \o IntStr(a.height)>>)
    \o When(sup["--colorscheme"], <<"--colorscheme=" \o Or(a.colorscheme, "Cornfield")>>)
    \o When(sup["--projection"], <<"--projection=" \o Or(a.projection, "p")>>)
    \o When(Truthy(a.view_opts), <<"--view=" \o a.view_opts>>)
    \o <<"-o", ShotOutFile(a, shot), ScadFile(a)>>

ScreenshotCmd(a, bin, sup, shot) ==
    RenderCmd(bin, sup, a.define)
    \o When(sup["--autocenter"], <<"--autocenter">>)
    \o When(sup["--viewall"], <<"--viewall">>)
    \o When(sup["--camera"], <<"--camera=" \o shot.camera>>)
    \o When(sup["--imgsize"], <<"--imgsize=" \o IntStr(a.width) \o "," \o IntStr(a.height)>>)
    \o When(sup["--colorscheme"], <<"--colorscheme=" \o Or(a.colorscheme, "Cornfield")>>)
    \o When(sup["--projection"], <<"--projection=" \o Or(a.projection, "p")>>)
    \o When(Truthy(a.view_opts) /\ sup["--view"], <<"--view=" \o a.view_opts>>)
    \o <<"-o", ShotOutFile(a, shot), ScadFile(a)>>

(***************************************************************************)
(* The run.                                                                 *)
(***************************************************************************)
\* One call of subprocess.run: running, returned with an exit code, or
\* raised because the binary could not be executed.
Call(kind, cmd, status, rc) == [kind |-> kind, cmd |-> cmd, status |-> status, rc |-> rc]

\* sys.exit(code), or main's return: the run is over.
Exit(code, why) == pc' = "exited" /\ exit_code' = code /\ error' = why

Init ==
    /\ \E r \in Runs : argv = r.argv /\ env = r.env
    /\ pc = "main"
    /\ openscad = None
    /\ supports = [flag \in Flags |-> FALSE]
    /\ strategy = "none"
    /\ shots = <<>>
    /\ idx = 0
    /\ calls = <<>>
    /\ files = {}
    /\ tmp_path = None
    /\ exit_code = -1
    /\ error = ""

\* main: parser.parse_args()
ParseArgs ==
    /\ pc = "main"
    /\ IF ArgparseRejects(argv)
       THEN Exit(2, "usage")
       ELSE pc' = "locate" /\ UNCHANGED <<exit_code, error>>
    /\ UNCHANGED <<argv, env, openscad, supports, strategy, shots, idx, calls, files, tmp_path>>

\* main: openscad = args.openscad or find_openscad()
LocateBinary ==
    /\ pc = "locate"
    /\ LET bin == IF Truthy(args.openscad) THEN args.openscad ELSE find_openscad(env)
       IN  IF ~Truthy(bin)
           THEN Exit(1, "no_openscad") /\ UNCHANGED openscad
           ELSE openscad' = bin /\ pc' = "probe" /\ UNCHANGED <<exit_code, error>>
    /\ UNCHANGED <<argv, env, supports, strategy, shots, idx, calls, files, tmp_path>>

\* main: supports = detect_flags(load_help_text(openscad)).  The help text is
\* empty when running the binary raises.
ProbeCapabilities ==
    /\ pc = "probe"
    /\ \E help \in HelpTexts, raised \in BOOLEAN :
          /\ ~env.exec_ok => raised
          /\ raised => help = ""
          /\ calls' = Append(calls, Call("probe", <<openscad, "--help">>,
                                         IF raised THEN "raised" ELSE "returned", 0))
          /\ supports' = detect_flags(help)
    /\ pc' = args.command
    /\ UNCHANGED <<argv, env, openscad, strategy, shots, idx, files, tmp_path, exit_code, error>>

\* run(cmd): subprocess.run starts the binary, or raises when it cannot.
Spawn(cmd, waiting) ==
    IF env.exec_ok
    THEN /\ calls' = Append(calls, Call("render", cmd, "running", -1))
         /\ pc' = waiting
         /\ UNCHANGED <<exit_code, error>>
    ELSE /\ calls' = Append(calls, Call("render", cmd, "raised", -1))
         /\ Exit(1, "OSError")

\* The running call returns rc.
Returned(rc) == calls' = [calls EXCEPT ![Len(calls)].status = "returned", ![Len(calls)].rc = rc]

\* cmd_validate up to the start of the render
ValidateBegin ==
    /\ pc = "validate"
    /\ IF ~env.input_exists
       THEN Exit(1, "no_input") /\ UNCHANGED <<calls, files, tmp_path>>
       ELSE LET tmp == ValidateTmpPath(args)
            IN  /\ tmp_path' = tmp
                /\ files' = files \cup {tmp}
                /\ Spawn(ValidateCmd(args, openscad, supports, tmp), "validate_wait")
    /\ UNCHANGED <<argv, env, openscad, supports, strategy, shots, idx>>

\* cmd_validate removing the scratch file whether or not --keep was given.
ValidateEnd_AlwaysUnlink ==
    /\ pc = "validate_wait"
    /\ \E rc \in 0..MaxExit :
          /\ Returned(rc)
          /\ IF rc # 0
             THEN Exit(rc, "render_failed") /\ UNCHANGED files
             ELSE files' = files \ {tmp_path} /\ Exit(0, "")
    /\ UNCHANGED <<argv, env, openscad, supports, strategy, shots, idx, tmp_path>>

\* cmd_validate from the return of the render
ValidateEnd ==
    /\ pc = "validate_wait"
    /\ \E rc \in 0..MaxExit :
          /\ Returned(rc)
          /\ IF rc # 0
             THEN Exit(rc, "render_failed") /\ UNCHANGED files
             ELSE /\ files' = IF args.keep THEN files ELSE files \ {tmp_path}
                  /\ Exit(0, "")
    /\ UNCHANGED <<argv, env, openscad, supports, strategy, shots, idx, tmp_path>>

\* cmd_stl up to the start of the render
StlBegin ==
    /\ pc = "stl"
    /\ IF ~env.input_exists
       THEN Exit(1, "no_input") /\ UNCHANGED calls
       ELSE Spawn(StlCmd(args, openscad, supports), "stl_wait")
    /\ UNCHANGED <<argv, env, openscad, supports, strategy, shots, idx, files, tmp_path>>

\* cmd_stl from the return of the render: a render that exits 0 has written
\* its output, whose size is then reported
StlEnd ==
    /\ pc = "stl_wait"
    /\ \E rc \in 0..MaxExit :
          /\ Returned(rc)
          /\ IF rc # 0
             THEN Exit(rc, "render_failed") /\ UNCHANGED files
             ELSE files' = files \cup {StlOutPath(args)} /\ Exit(0, "")
    /\ UNCHANGED <<argv, env, openscad, supports, strategy, shots, idx, tmp_path>>

\* cmd_screenshots up to the loop over the shots
ShotsBuild ==
    /\ pc = "screenshots"
    /\ IF ~env.input_exists
       THEN Exit(1, "no_input") /\ UNCHANGED <<strategy, shots, idx>>
       ELSE LET b == BuildShots(args)
            IN  /\ strategy' = b.strategy
                /\ IF b.outcome = "ValueError"
                   THEN Exit(1, "ValueError") /\ UNCHANGED <<shots, idx>>
                   ELSE IF b.outcome = "unknown_preset"
                   THEN Exit(1, "unknown_preset") /\ UNCHANGED <<shots, idx>>
                   ELSE IF Len(b.shots) = 0
                   THEN Exit(0, "no_views") /\ shots' = b.shots /\ UNCHANGED idx
                   ELSE /\ shots' = b.shots
                        /\ idx' = 1
                        /\ pc' = "shoot"
                        /\ UNCHANGED <<exit_code, error>>
    /\ UNCHANGED <<argv, env, openscad, supports, calls, files, tmp_path>>

\* The loop body of cmd_screenshots up to the start of the render
ShotInvoke ==
    /\ pc = "shoot"
    /\ Spawn(ScreenshotCmd(args, openscad, supports, shots[idx]), "shoot_wait")
    /\ UNCHANGED <<argv, env, openscad, supports, strategy, shots, idx, files, tmp_path>>

\* The loop going on to the next shot after a render that failed.
ShotReturn_KeepGoing ==
    /\ pc = "shoot_wait"
    /\ \E rc \in 0..MaxExit :
          /\ Returned(rc)
          /\ files' = IF rc = 0 THEN files \cup {ShotOutFile(args, shots[idx])} ELSE files
          /\ idx' = idx + 1
          /\ IF idx = Len(shots)
             THEN Exit(0, "")
             ELSE pc' = "shoot" /\ UNCHANGED <<exit_code, error>>
    /\ UNCHANGED <<argv, env, openscad, supports, strategy, shots, tmp_path>>

\* The loop body from the return of the render: a render that exits 0 has
\* written its image; after the last shot main returns 0
ShotReturn ==
    /\ pc = "shoot_wait"
    /\ \E rc \in 0..MaxExit :
          /\ Returned(rc)
          /\ IF rc # 0
             THEN Exit(rc, "render_failed") /\ UNCHANGED <<files, idx>>
             ELSE /\ files' = files \cup {ShotOutFile(args, shots[idx])}
                  /\ idx' = idx + 1
                  /\ IF idx = Len(shots)
                     THEN Exit(0, "")
                     ELSE pc' = "shoot" /\ UNCHANGED <<exit_code, error>>
    /\ UNCHANGED <<argv, env, openscad, supports, strategy, shots, tmp_path>>

Next ==
    \/ ParseArgs
    \/ LocateBinary
    \/ ProbeCapabilities
    \/ ValidateBegin
    \/ ValidateEnd
    \/ StlBegin
    \/ StlEnd
    \/ ShotsBuild
    \/ ShotInvoke
    \/ ShotReturn

Spec == Init /\ [][Next]_vars

(***************************************************************************)
(* What the properties below read off a state.                              *)
(***************************************************************************)
IsRender(c) == c.kind = "render"

RenderCalls == SelectSeq(calls, IsRender)

Exited == pc = "exited"

InScreenshots == argv.command = "screenshots" /\ strategy # "none"

\* The shot list was built (the strategy did not end the run itself).
ShotsBuilt == InScreenshots /\ error \notin {"ValueError", "unknown_preset"}

StartsWith(s, prefix) == Len(s) >= Len(prefix) /\ SubSeq(s, 1, Len(prefix)) = prefix

\* The word of cmd carrying the optional flag, 0 when there is none.  The
\* word after -D is a definition and the word after -o a path, not flags.
FlagWord(cmd, flag) ==
    LET hits == {k \in 2..Len(cmd) :
                    /\ cmd[k - 1] \notin {"-D", "-o"}
                    /\ cmd[k] = flag \/ StartsWith(cmd[k], flag \o "=")}
    IN  IF hits = {} THEN 0 ELSE CHOOSE k \in hits : TRUE

HasFlag(cmd, flag) == FlagWord(cmd, flag) # 0

\* The -D definitions of cmd, in order.
IsDefineAt(cmd, k) == k > 1 /\ cmd[k - 1] = "-D"

DefinesOf(cmd) ==
    LET ks == {k \in 1..Len(cmd) : IsDefineAt(cmd, k)}
        Nth(n) == CHOOSE k \in ks : Cardinality({j \in ks : j < k}) = n - 1
    IN  [n \in 1..Cardinality(ks) |-> cmd[Nth(n)]]

\* cmd ends with -o <path> <input file>
EndsWithOutput(cmd, path, input) ==
    /\ Len(cmd) >= 4
    /\ cmd[Len(cmd) - 2] = "-o"
    /\ cmd[Len(cmd) - 1] = path
    /\ cmd[Len(cmd)] = input

\* The components of a camera string, and whether one is a number.
Components(camera) == Split(camera, ",")

IsUnsignedNumber(t) ==
    LET dot == Find(t, ".")
    IN  IF dot = 0 THEN IsDigits(t)
        ELSE IsDigits(SubSeq(t, 1, dot - 1)) /\ IsDigits(SubSeq(t, dot + 1, Len(t)))

IsNumber(t) ==
    IF StartsWith(t, "-") THEN IsUnsignedNumber(SubSeq(t, 2, Len(t))) ELSE IsUnsignedNumber(t)

AllNumbers(parts) == \A k \in 1..Len(parts) : IsNumber(parts[k])

\* The known view names among the parts of a --views value, in order.
StrippedPart(parts) == [k \in 1..Len(parts) |-> Strip(parts[k])]

IsKnownView(v) == v \in ViewNames

KnownViews(value) == SelectSeq(StrippedPart(Split(value, ",")), IsKnownView)

Labels(list) == [k \in 1..Len(list) |-> list[k].label]

\* A part of an --angles value that is not blank and has no colon.
HasColonlessPart(value) ==
    \E k \in 1..Len(Split(value, ",")) :
        LET part == Strip(Split(value, ",")[k])
        IN  part # "" /\ ~Contains(part, ":")

(***************************************************************************)
(* C1.  The shot-list options are taken in the strict order angles,         *)
(* turntable, views, preset, default: the first one given builds the shot   *)
(* list, and the options after it change neither the list nor how building  *)
(* it ends.  An empty text is read as an option that gives nothing; a       *)
(* turntable step is given whenever --turntable is on the command line.     *)
(***************************************************************************)
FirstGiven(raw) ==
    IF Truthy(raw.angles) THEN "angles"
    ELSE IF raw.turntable # None THEN "turntable"
    ELSE IF Truthy(raw.views) THEN "views"
    ELSE IF Truthy(raw.preset) THEN "preset"
    ELSE "default"

\* The command line without the options below the first one given.
Pruned(raw) ==
    LET first == FirstGiven(raw)
    IN  [raw EXCEPT
            !.turntable = IF first = "angles" THEN None ELSE @,
            !.views = IF first \in {"angles", "turntable"} THEN None ELSE @,
            !.preset = IF first \in {"angles", "turntable", "views"} THEN None ELSE @]

C1_StrictPriority ==
    InScreenshots =>
        /\ strategy = FirstGiven(argv)
        /\ ShotsBuilt => shots = BuildShots(Namespace(Pruned(argv))).shots
        /\ (error = "ValueError") = (BuildShots(Namespace(Pruned(argv))).outcome = "ValueError")

(***************************************************************************)
(* C2.  In screenshots the renders are made one per shot in the order of    *)
(* the shot list, each only after every earlier one returned 0; a render    *)
(* that returns a non-zero code is the last one and its code is the exit    *)
(* code; when every render returned 0 and the run is over, every shot was   *)
(* rendered and the exit code is 0.                                         *)
(***************************************************************************)
C2_SequentialFailFast ==
    ShotsBuilt =>
        /\ Len(RenderCalls) <= Len(shots)
        /\ \A k \in 1..Len(RenderCalls) :
              /\ EndsWithOutput(RenderCalls[k].cmd, ShotOutFile(args, shots[k]), argv.input)
              /\ k < Len(RenderCalls) =>
                    RenderCalls[k].status = "returned" /\ RenderCalls[k].rc = 0
              /\ (Exited /\ RenderCalls[k].status = "returned" /\ RenderCalls[k].rc # 0) =>
                    exit_code = RenderCalls[k].rc
        /\ (Exited /\ \A k \in 1..Len(RenderCalls) :
                          RenderCalls[k].status = "returned" /\ RenderCalls[k].rc = 0) =>
              Len(RenderCalls) = Len(shots) /\ exit_code = 0

\* The second render of a longer shot list failed with code 2.
C2_Witness ==
    /\ ShotsBuilt /\ Exited
    /\ Len(shots) >= 3
    /\ Len(RenderCalls) = 2
    /\ RenderCalls[1].rc = 0
    /\ RenderCalls[2].rc = 2
    /\ exit_code = 2

(***************************************************************************)
(* C3.  In validate the scratch file exists from before the render is       *)
(* started, it is removed only after the render returned 0, and after a     *)
(* run whose render returned 0 it is on disk exactly when --keep was given. *)
(***************************************************************************)
C3_ScratchLifecycle ==
    argv.command = "validate" =>
        /\ Len(RenderCalls) > 0 => tmp_path # None
        /\ (Len(RenderCalls) > 0 /\ RenderCalls[1].status # "returned") => tmp_path \in files
        /\ (tmp_path # None /\ tmp_path \notin files) =>
              /\ Len(RenderCalls) = 1
              /\ RenderCalls[1].status = "returned"
              /\ RenderCalls[1].rc = 0
        /\ (Exited /\ Len(RenderCalls) = 1 /\ RenderCalls[1].status = "returned"
                   /\ RenderCalls[1].rc = 0) =>
              (argv.keep <=> tmp_path \in files)

\* A validate run without --keep ended with the scratch file removed.
C3_Witness ==
    /\ argv.command = "validate" /\ Exited /\ exit_code = 0
    /\ ~argv.keep
    /\ tmp_path # None /\ tmp_path \notin files
    /\ Len(RenderCalls) = 1

(***************************************************************************)
(* C4 as stated.  A turntable of step s makes exactly floor(360/s) shots,   *)
(* for every s >= 1.                                                        *)
(***************************************************************************)
TurntableActive == ShotsBuilt /\ strategy = "turntable"

C4_FloorCount ==
    TurntableActive => Len(shots) = 360 \div Abs(args.turntable.val)

(***************************************************************************)
(* C4 amended.  A turntable of step s makes floor(360/s) shots when         *)
(* s <= 360 and one shot when s > 360; shot i (from 0) is labelled and      *)
(* aimed at azimuth az_start + i*s and the fixed elevation.  Step 36 from   *)
(* azimuth 0 makes the ten shots at 0, 36, ..., 324.                        *)
(***************************************************************************)
C4_TurntableShots ==
    TurntableActive =>
        LET s == Abs(args.turntable.val)
        IN  /\ s >= 1
            /\ Len(shots) = IF s > 360 THEN 1 ELSE 360 \div s
            /\ \A i \in 0..(Len(shots) - 1) :
                  LET az == args.az_start + 100 * i * s
                  IN  /\ shots[i + 1].label
                            = "tt_az" \o label_from_value(az)
                              \o "_el" \o label_from_value(args.elevation)
                      /\ shots[i + 1].camera
                            = camera_string(direction_from_angles(az, args.elevation),
                                            args.distance)
            /\ (s = 36 /\ args.az_start = 0 /\ args.elevation = 2500) =>
                  Labels(shots) = <<"tt_az0_el25", "tt_az36_el25", "tt_az72_el25",
                                    "tt_az108_el25", "tt_az144_el25", "tt_az180_el25",
                                    "tt_az216_el25", "tt_az252_el25", "tt_az288_el25",
                                    "tt_az324_el25">>

\* A turntable of step 400 made its one shot and the run ended well.
C4_Witness ==
    /\ TurntableActive /\ Exited /\ exit_code = 0
    /\ args.turntable.val = 400
    /\ Len(shots) = 1
    /\ Len(RenderCalls) = 1

(***************************************************************************)
(* C5.  --turntable 0 without --angles: the turntable builds the shot       *)
(* list, with the step clamped to 1, so 360 shots.                          *)
(***************************************************************************)
C5_ZeroStepClamped ==
    (InScreenshots /\ argv.angles = None /\ argv.turntable # None
                   /\ args.turntable.val = 0) =>
        strategy = "turntable" /\ Len(shots) = 360

(***************************************************************************)
(* C6 as stated.  A run whose --angles has a part without a colon ends in   *)
(* a failure, and no external process was started in it, the help probe     *)
(* included.                                                                *)
(***************************************************************************)
BadAnglesRunOver ==
    /\ argv.command = "screenshots" /\ Exited
    /\ Truthy(argv.angles) /\ HasColonlessPart(argv.angles)

C6_NoProcessAtAll ==
    BadAnglesRunOver => exit_code # 0 /\ calls = <<>>

(***************************************************************************)
(* C6 amended.  A run whose --angles has a part without a colon ends in a   *)
(* failure and no render was started in it; the only external process a     *)
(* such run starts is the one help probe.                                   *)
(***************************************************************************)
C6_NoRenderBeforeAngleError ==
    BadAnglesRunOver =>
        /\ exit_code # 0
        /\ RenderCalls = <<>>
        /\ Len(calls) <= 1
        /\ \A k \in 1..Len(calls) : calls[k].cmd = <<openscad, "--help">>

\* The angle error was raised after the probe had run.
C6_Witness ==
    /\ BadAnglesRunOver
    /\ error = "ValueError"
    /\ Len(calls) = 1
    /\ calls[1].kind = "probe"
    /\ RenderCalls = <<>>

(***************************************************************************)
(* C7.  Whatever the probe found, a render command carries an optional      *)
(* flag only when the mapping has it supported, and always the -D           *)
(* definitions, -o with the output path and the input file; a run that      *)
(* starts no render ended for a reason other than the flags.                *)
(***************************************************************************)
C7_FlagsOnlyIfSupported ==
    /\ \A k \in 1..Len(RenderCalls) :
          LET cmd == RenderCalls[k].cmd
          IN  /\ \A flag \in Flags : HasFlag(cmd, flag) => supports[flag]
              /\ cmd[1] = openscad
              /\ DefinesOf(cmd) = argv.define
              /\ cmd[Len(cmd) - 2] = "-o"
              /\ cmd[Len(cmd)] = argv.input
    /\ (Exited /\ RenderCalls = <<>>) =>
          error \in {"usage", "no_openscad", "no_input", "ValueError", "no_views"}
    /\ pc \in {"validate_wait", "stl_wait", "shoot_wait"} =>
          Len(RenderCalls) > 0 /\ RenderCalls[Len(RenderCalls)].status = "running"

\* The probe raised, nothing is supported, --view-opts was given, and the
\* renders were made all the same and succeeded.
C7_Witness ==
    /\ ShotsBuilt /\ Exited /\ exit_code = 0
    /\ calls[1].kind = "probe" /\ calls[1].status = "raised"
    /\ \A flag \in Flags : ~supports[flag]
    /\ Truthy(argv.view_opts)
    /\ Len(RenderCalls) = Len(shots)
    /\ Len(shots) > 1

(***************************************************************************)
(* C8.  With the views strategy the shot list is the known names among the  *)
(* given parts, in their order, and an unknown name ends no run; a strategy *)
(* that builds an empty shot list starts no render and the exit code is 0.  *)
(***************************************************************************)
C8_UnknownViewsSkipped ==
    /\ (ShotsBuilt /\ strategy = "views") =>
          /\ Labels(shots) = KnownViews(argv.views)
          /\ \A k \in 1..Len(shots) :
                shots[k].camera = camera_string(VIEW_DIRECTIONS[shots[k].label], args.distance)
          /\ (Exited /\ exit_code # 0) => Len(RenderCalls) > 0
    /\ (InScreenshots /\ strategy = "views") => ShotsBuilt
    /\ (ShotsBuilt /\ shots = <<>>) => RenderCalls = <<>>
    /\ (ShotsBuilt /\ shots = <<>> /\ Exited) => exit_code = 0
    /\ (ShotsBuilt /\ shots = <<>>) => Exited

\* Every view was unknown: no render, exit code 0.
C8_Witness ==
    /\ ShotsBuilt /\ strategy = "views" /\ Exited
    /\ argv.views = "bogus,nope"
    /\ shots = <<>>
    /\ RenderCalls = <<>>
    /\ exit_code = 0

(***************************************************************************)
(* C9 as stated.  Every camera text of the shot list, whatever strategy     *)
(* built it, has exactly 6 numeric components.                              *)
(***************************************************************************)
C9_SixComponents ==
    ShotsBuilt =>
        \A k \in 1..Len(shots) :
            /\ Len(Components(shots[k].camera)) = 6
            /\ AllNumbers(Components(shots[k].camera))

(***************************************************************************)
(* C9 amended.  A camera text built from angles, a turntable or views has   *)
(* exactly 6 numeric components, the last three 0.000; a camera text of a   *)
(* preset or of the default has exactly 7 numeric components.  The          *)
(* --camera flag of the k-th render carries the k-th camera text.           *)
(***************************************************************************)
C9_CameraComponents ==
    ShotsBuilt =>
        /\ \A k \in 1..Len(shots) :
              LET parts == Components(shots[k].camera)
              IN  /\ AllNumbers(parts)
                  /\ Len(parts) = IF strategy \in {"preset", "default"} THEN 7 ELSE 6
                  /\ strategy \notin {"preset", "default"} =>
                        SubSeq(parts, 4, 6) = <<"0.000", "0.000", "0.000">>
        /\ \A k \in 1..Len(RenderCalls) :
              supports["--camera"] =>
                  /\ HasFlag(RenderCalls[k].cmd, "--camera")
                  /\ RenderCalls[k].cmd[FlagWord(RenderCalls[k].cmd, "--camera")]
                        = "--camera=" \o shots[k].camera

\* The default shot was rendered with its 7-component camera text.
C9_Witness ==
    /\ ShotsBuilt /\ strategy = "default" /\ Exited /\ exit_code = 0
    /\ Len(RenderCalls) = 1
    /\ HasFlag(RenderCalls[1].cmd, "--camera")
    /\ Len(Components(shots[1].camera)) = 7

(***************************************************************************)
(* C10.  After a screenshots run whose renders all succeeded, every shot    *)
(* has its own image: as many image files as shots.                         *)
(***************************************************************************)
C10_OneImagePerShot ==
    (ShotsBuilt /\ Exited /\ exit_code = 0) => Cardinality(files) = Len(shots)

====
